---- MODULE Spec2Model ----
(***************************************************************************)
(* A model of the two applications of the repository:                      *)
(*   - the weather endpoint, src/Backend/app.py (get_weather);             *)
(*   - the CSV insight generator, src/streamlit/app.py (the page script,   *)
(*     load_data and display_basic_eda).                                   *)
(*                                                                         *)
(* Conventions.  An optional value (a Python None, a missing dict key, a   *)
(* widget that was not rendered) is a sequence of length 0 or 1: <<>> is   *)
(* "absent", <<v>> is "present with value v".  A Python str whose          *)
(* characters matter (the weather description) is a sequence of            *)
(* one-character strings.  Temperatures are in tenths of a degree Celsius  *)
(* (155 is 15.5): the handler passes them through unchanged.               *)
(***************************************************************************)
EXTENDS Integers, Sequences, FiniteSets, TLC

VARIABLES
    \* ---- weather endpoint ----
    req,            \* the last request handled: <<>> or <<[city, net]>>
    resp,           \* the response returned for it: <<>> or <<[status, body, unhandled]>>
    upstream,       \* the upstream call made while handling it: <<>> or <<params>>
    upstreamCalls,  \* number of outbound calls made so far
    \* ---- insight generator ----
    uploaded_file,  \* the file in the uploader: <<>> or <<file>>
    cache,          \* st.cache_data's entry for load_data(uploaded_file)
    df,             \* the table object the last script run worked on
    widgets,        \* session state of the keyed widgets
    page,           \* what the last script run rendered
    runs,           \* script runs since the file was uploaded (saturating)
    \* ---- categorical frequency on a long column ----
    column,         \* the cells of the selected categorical column
    chart           \* what Insight 2 rendered for it

weatherVars == <<req, resp, upstream, upstreamCalls>>
insightVars == <<uploaded_file, cache, df, widgets, page, runs>>
freqVars    == <<column, chart>>
vars        == <<req, resp, upstream, upstreamCalls,
                 uploaded_file, cache, df, widgets, page, runs,
                 column, chart>>

(***************************************************************************)
(* Bounds of the model.                                                    *)
(***************************************************************************)
MaxUpstreamCalls == 2   \* outbound calls counted before the model stops

None == <<>>
Some(v) == <<v>>
IsSome(o) == Len(o) > 0
Get(o) == o[1]

Min2(a, b) == IF a <= b THEN a ELSE b

(***************************************************************************)
(*                         THE WEATHER ENDPOINT                            *)
(***************************************************************************)

\* ---- Python str.capitalize on character sequences ----
LowerChars == <<"a", "c", "e", "i", "k", "l", "m", "n", "r", "s", "t", "y">>
UpperChars == <<"A", "C", "E", "I", "K", "L", "M", "N", "R", "S", "T", "Y">>

ToUpper(c) ==
    IF \E i \in 1..Len(LowerChars) : LowerChars[i] = c
    THEN UpperChars[CHOOSE i \in 1..Len(LowerChars) : LowerChars[i] = c]
    ELSE c

ToLower(c) ==
    IF \E i \in 1..Len(UpperChars) : UpperChars[i] = c
    THEN LowerChars[CHOOSE i \in 1..Len(UpperChars) : UpperChars[i] = c]
    ELSE c

\* A mutation of capitalize: only the first character is touched (str.title-like
\* handling of the tail is left out).
capitalize_first_only(s) ==
    [i \in 1..Len(s) |-> IF i = 1 THEN ToUpper(s[i]) ELSE s[i]]

\* str.capitalize(): first character upper-cased, every other one lower-cased.
capitalize(s) ==
    [i \in 1..Len(s) |-> IF i = 1 THEN ToUpper(s[i]) ELSE ToLower(s[i])]

\* ---- configuration ----
API_key  == "k3y"
BASE_URL == "http://api.openweathermap.org/data/2.5/weather"

\* ---- inputs: the request and what the upstream provider does ----
ClearSky == <<"c", "l", "e", "a", "r", " ", "s", "k", "y">>
Descriptions ==
    { <<>>, ClearSky, <<"m", "I", "s", "T">> }
Names  == {"London"}
Temps  == {155}
Cities == { None, Some(""), Some("London") }
Statuses == {200, 404}

WeatherEntries == { [description |-> d] :
                    d \in {None} \cup {Some(x) : x \in Descriptions} }
\* The "weather" lists of an upstream body: empty, one entry, two entries.
WeatherLists ==
    {<<>>} \cup { <<e>> : e \in WeatherEntries }
           \cup { <<e, f>> : e \in WeatherEntries, f \in WeatherEntries }

NotJsonBody == [kind |-> "notjson", name |-> None, main |-> None, weather |-> None]
ArrayBody   == [kind |-> "array",   name |-> None, main |-> None, weather |-> None]
ObjectBodies ==
    { [kind |-> "object", name |-> n, main |-> m, weather |-> w] :
        n \in {None} \cup {Some(x) : x \in Names},
        m \in {None, Some([temp |-> None])} \cup {Some([temp |-> Some(t)]) : t \in Temps},
        w \in {None} \cup {Some(l) : l \in WeatherLists} }
Bodies == {NotJsonBody, ArrayBody} \cup ObjectBodies

\* What requests.get does: raises (no response), or returns a response.
NetFailure == [kind |-> "failure", status |-> 0, body |-> NotJsonBody]
NetOutcomes ==
    {NetFailure} \cup
    { [kind |-> "response", status |-> s, body |-> b] : s \in Statuses, b \in Bodies }

\* ---- Python exceptions: type and str(e) ----
Exc(type, text) == [type |-> type, text |-> text]
\* Classes derived from Exception, which "except Exception" catches.
ExceptionSubclasses ==
    {"ConnectionError", "JSONDecodeError", "KeyError", "IndexError", "TypeError",
     "ValueError", "EmptyDataError", "ParserError"}

\* ---- response bodies ----
EmptyBody ==
    [error |-> None, details |-> None, city |-> None,
     temperature |-> None, description |-> None]
ErrorBody(msg) == [EmptyBody EXCEPT !.error = Some(msg)]
Response(status, body) == [status |-> status, body |-> body, unhandled |-> None]

\* A mutation of the guard of line 17: "if city is None" instead of "if not city".
city_is_not_none(city) == IsSome(city)

\* Python truthiness of request.args.get("city"): None and "" are falsy.
Truthy(city) == IsSome(city) /\ Get(city) # ""

\* The result of evaluating an expression: a value, or a raised exception.
Value(v)  == [raised |-> None, value |-> Some(v)]
Raise(e)  == [raised |-> Some(e), value |-> None]

\* requests.get(BASE_URL, params=params)
requests_get(net) ==
    IF net.kind = "failure"
    THEN Raise(Exc("ConnectionError", "Max retries exceeded"))
    ELSE Value(net)

\* response.json()
response_json(response) ==
    IF response.body.kind = "notjson"
    THEN Raise(Exc("JSONDecodeError", "Expecting value: line 1 column 1 (char 0)"))
    ELSE Value(response.body)

\* The dict literal of lines 31-35, its items evaluated in order.
weather_info(data) ==
    IF data.kind = "array"
    THEN Raise(Exc("TypeError", "list indices must be integers or slices, not str"))
    ELSE IF ~IsSome(data.name) THEN Raise(Exc("KeyError", "'name'"))
    ELSE IF ~IsSome(data.main) THEN Raise(Exc("KeyError", "'main'"))
    ELSE IF ~IsSome(Get(data.main).temp) THEN Raise(Exc("KeyError", "'temp'"))
    ELSE IF ~IsSome(data.weather) THEN Raise(Exc("KeyError", "'weather'"))
    ELSE IF Len(Get(data.weather)) = 0
         THEN Raise(Exc("IndexError", "list index out of range"))
    ELSE IF ~IsSome(Get(data.weather)[1].description)
         THEN Raise(Exc("KeyError", "'description'"))
    ELSE Value([EmptyBody EXCEPT
                  !.city = Some(Get(data.name)),
                  !.temperature = Some(Get(Get(data.main).temp)),
                  !.description =
                      Some(capitalize(Get(Get(data.weather)[1].description)))])

\* The body of the try block, lines 20-37.
try_block(city, net) ==
    LET response == requests_get(net) IN
    IF IsSome(response.raised) THEN response
    ELSE LET data == response_json(Get(response.value)) IN
         IF IsSome(data.raised) THEN data
         ELSE IF Get(response.value).status # 200
              THEN Value(Response(404, ErrorBody("City not found")))
              ELSE LET info == weather_info(Get(data.value)) IN
                   IF IsSome(info.raised) THEN info
                   ELSE Value(Response(200, Get(info.value)))

\* A mutation of the except clause: "except KeyError" instead of "except Exception".
except_KeyError(e) == e.type = "KeyError"

\* "except Exception as e" (line 39): does the clause catch e?
except_Exception(e) == e.type \in ExceptionSubclasses

\* get_weather, lines 15-40: the response, and the upstream call it made (if any).
get_weather(city, net) ==
    IF ~Truthy(city)
    THEN [response |-> Response(200, ErrorBody("City parameter is required")),
          upstream |-> None]
    ELSE LET params == [url |-> BASE_URL, q |-> Get(city),
                        appid |-> API_key, units |-> "metric"]
             r == try_block(city, net)
         IN [upstream |-> Some(params),
             response |->
                IF ~IsSome(r.raised) THEN Get(r.value)
                ELSE IF except_Exception(Get(r.raised))
                     THEN Response(500, [ErrorBody("Server error") EXCEPT
                                           !.details = Some(Get(r.raised).text)])
                     ELSE [status |-> 500, body |-> EmptyBody,
                           unhandled |-> Some(Get(r.raised).type)]]

\* One request GET /weather: the city parameter and the upstream's behaviour are
\* the inputs.
GetWeather ==
    \E city \in Cities, net \in NetOutcomes :
        LET r == get_weather(city, net) IN
        /\ IsSome(r.upstream) => upstreamCalls < MaxUpstreamCalls
        /\ req' = Some([city |-> city, net |-> net])
        /\ resp' = Some(r.response)
        /\ upstream' = r.upstream
        /\ upstreamCalls' = upstreamCalls + Len(r.upstream)
        /\ UNCHANGED <<insightVars, freqVars>>


(***************************************************************************)
(*                      THE CSV INSIGHT GENERATOR                          *)
(*                                                                         *)
(* An uploaded file is a header and, per column, the text of its fields.   *)
(* A table (DataFrame) has the columns of the header, a dtype per column   *)
(* ("number", "object" or "datetime") and typed cells.  A cell is a record *)
(* [kind, n, s]: "nan" (missing), "num" (n), "str" (s), "ts" (a timestamp, *)
(* n = yyyymmdd) or "nat" (missing timestamp).                             *)
(***************************************************************************)
MaxRows == 2   \* most data rows of an uploaded file
MaxRuns == 2   \* the run counter saturates here

NaN        == [kind |-> "nan", n |-> 0, s |-> ""]
NaT        == [kind |-> "nat", n |-> 0, s |-> ""]
NumCell(n) == [kind |-> "num", n |-> n, s |-> ""]
StrCell(s) == [kind |-> "str", n |-> 0, s |-> s]
TsCell(n)  == [kind |-> "ts",  n |-> n, s |-> ""]

\* ---- field texts of the uploaded files, and how the libraries read them ----
NumberOf == ("7" :> 7)
DateOf   == ("2024-01-05" :> 20240105)
FieldTexts == {"", "abc"} \cup DOMAIN NumberOf \cup DOMAIN DateOf

ColumnNames == <<"a", "b">>
Headers == { SubSeq(ColumnNames, 1, k) : k \in 1..Len(ColumnNames) }

CsvFiles ==
    UNION { { [kind |-> "csv", header |-> h, nrows |-> n, fields |-> f] :
                f \in [ {h[i] : i \in 1..Len(h)} -> [1..n -> FieldTexts] ] } :
            h \in Headers, n \in 0..MaxRows }
\* A file pandas cannot read: empty (no header) or with a tokenizing error.
BadFile(kind) == [kind |-> kind, header |-> <<>>, nrows |-> 0,
                  fields |-> [c \in {} |-> <<>>]]
Files == CsvFiles \cup {BadFile("empty"), BadFile("garbled")}

Range(seq) == {seq[i] : i \in 1..Len(seq)}

\* pd.read_csv(uploaded_file): a column whose non-empty fields are all numbers is
\* numeric (an all-empty column is float NaN); any other column is object, its
\* empty fields NaN.  A header-only file gives empty object columns.
read_csv(file) ==
    IF file.kind = "empty"
    THEN Raise(Exc("EmptyDataError", "No columns to parse from file"))
    ELSE IF file.kind = "garbled"
    THEN Raise(Exc("ParserError", "Error tokenizing data"))
    ELSE LET cols == Range(file.header)
             numeric(c) ==
                 /\ file.nrows > 0
                 /\ \A i \in 1..file.nrows :
                        file.fields[c][i] = "" \/ file.fields[c][i] \in DOMAIN NumberOf
         IN Value([columns |-> file.header,
                   nrows   |-> file.nrows,
                   dtype   |-> [c \in cols |->
                                 IF numeric(c) THEN "number" ELSE "object"],
                   data    |-> [c \in cols |-> [i \in 1..file.nrows |->
                                 LET t == file.fields[c][i] IN
                                 IF t = "" THEN NaN
                                 ELSE IF numeric(c) THEN NumCell(NumberOf[t])
                                 ELSE StrCell(t)]]])

\* df.select_dtypes(include=...).columns.tolist(): the columns, in table order,
\* whose dtype is one of those given.
select_dtypes(t, dtypes) ==
    SelectSeq(t.columns, LAMBDA c : t.dtype[c] \in dtypes)

isnull(cell) == cell.kind \in {"nan", "nat"}

\* pd.to_datetime(series, errors='raise') on an object or datetime column: a
\* missing value becomes NaT, a text that is a date its timestamp, and any other
\* text raises.
to_datetime(t, c) ==
    IF t.dtype[c] = "datetime" THEN Value(t.data[c])
    ELSE IF \E i \in 1..t.nrows :
                ~isnull(t.data[c][i]) /\ t.data[c][i].s \notin DOMAIN DateOf
         THEN Raise(Exc("ValueError", "Unknown datetime string format"))
         ELSE Value([i \in 1..t.nrows |->
                       IF isnull(t.data[c][i]) THEN NaT
                       ELSE TsCell(DateOf[t.data[c][i].s])])

\* ---- load_data, behind st.cache_data ----
\* A mutation of line 26: "except pd.errors.ParserError" instead of
\* "except Exception".
load_result_parser_error_only(r) ==
    IF IsSome(r.raised)
    THEN IF Get(r.raised).type = "ParserError"
         THEN [value |-> None, error |-> Some(Get(r.raised).text), uncaught |-> None]
         ELSE [value |-> None, error |-> None, uncaught |-> Some(Get(r.raised).type)]
    ELSE [value |-> r.value, error |-> None, uncaught |-> None]

\* Lines 23-28: the table, or on an exception the clause catches st.error(...)
\* and None; an exception it does not catch leaves the function.
load_result(r) ==
    IF IsSome(r.raised)
    THEN IF except_Exception(Get(r.raised))
         THEN [value |-> None, error |-> Some(Get(r.raised).text), uncaught |-> None]
         ELSE [value |-> None, error |-> None, uncaught |-> Some(Get(r.raised).type)]
    ELSE [value |-> r.value, error |-> None, uncaught |-> None]

\* st.cache_data: the stored entry on a hit, the body's result on a miss.
cache_lookup(entry, computed) ==
    IF IsSome(entry) THEN Get(entry) ELSE computed

\* What the call hands back: the value, the message it rendered, the cache entry
\* afterwards (nothing is stored when the body raised), and whether the value is
\* the stored object itself.
cache_return(e, aliased) ==
    [value |-> e.value, error |-> e.error, uncaught |-> e.uncaught,
     entry |-> IF IsSome(e.uncaught) THEN None ELSE Some(e),
     aliased |-> aliased]

\* A mutation of the decorator: the cached object itself is handed to the script
\* (as st.cache_resource does), so the script's writes land in the cache.
load_data_by_reference(file, entry) ==
    cache_return(cache_lookup(entry, load_result(read_csv(file))), TRUE)

\* load_data(uploaded_file), lines 20-28.  On a miss the body runs; st.cache_data
\* stores the return value serialized together with the st.error it recorded; on
\* a hit it replays the message and returns a fresh deserialized copy, so the
\* caller never holds the stored object.
load_data(file, entry) ==
    cache_return(cache_lookup(entry, load_result(read_csv(file))), FALSE)

\* ---- display_basic_eda ----
\* A mutation of line 57: the filter keeps every column (>= 0 instead of > 0).
has_missing_ge0(count) == count >= 0

\* Line 57: missing_values[missing_values > 0].
has_missing(count) == count > 0

\* df.isnull().sum() for one column.
missing_count(t, c) == Cardinality({i \in 1..t.nrows : isnull(t.data[c][i])})

\* Lines 56-57: the missing count of each column that has missing values.
missing_values(t) ==
    [c \in {x \in Range(t.columns) : has_missing(missing_count(t, x))} |->
        missing_count(t, c)]

\* Lines 58-75: the table of (Column, Missing Count) in column order and the
\* heatmap of df.isnull(), or the success message.
missing_value_analysis(t, missing) ==
    [missing_table |->
        IF DOMAIN missing # {}
        THEN Some(SelectSeq(t.columns, LAMBDA c : c \in DOMAIN missing))
        ELSE None,
     missing_counts |-> missing,
     missing_heatmap |->
        IF DOMAIN missing # {}
        THEN Some([c \in Range(t.columns) |->
                     [i \in 1..t.nrows |-> isnull(t.data[c][i])]])
        ELSE None,
     no_missing |-> DOMAIN missing = {}]

\* Lines 37-53: the dimensions and the summary statistics (the numeric columns
\* described), absent when numeric_df is empty.
dimensions_and_summary(t, numeric_df) ==
    [shape |-> <<t.nrows, Len(t.columns)>>,
     describe |-> IF Len(numeric_df) > 0 /\ t.nrows > 0
                  THEN Some(numeric_df) ELSE None]

display_basic_eda(t) ==
    [summary |-> dimensions_and_summary(t, select_dtypes(t, {"number"})),
     missing |-> missing_value_analysis(t, missing_values(t))]

\* ---- column classification, lines 105-116 ----
\* A mutation of the try/except of lines 112-116: the parse never raises
\* (errors='coerce'), so every text column is appended.
infers_datetime_coerce(t, c) == TRUE

\* Lines 112-116: the column is appended when pd.to_datetime did not raise.
infers_datetime(t, c) == ~IsSome(to_datetime(t, c).raised)

\* Lines 109-116: the native datetime columns, or when there are none the text
\* columns that parse.
datetime_columns(t, native) ==
    IF Len(native) > 0 THEN native
    ELSE SelectSeq(select_dtypes(t, {"object"}), LAMBDA c : infers_datetime(t, c))

classify(t) ==
    [numeric_cols     |-> select_dtypes(t, {"number"}),
     categorical_cols |-> select_dtypes(t, {"object", "category"}),
     datetime_cols    |-> datetime_columns(t, select_dtypes(t, {"datetime"}))]

\* ---- widgets ----
\* st.selectbox(options, key=...): the keyed session value when it is one of the
\* options, else the first option.
selectbox(options, state) ==
    IF IsSome(state) /\ Get(state) \in Range(options) THEN Get(state) ELSE options[1]

\* A selectbox the script renders only when it has options (lines 121, 149, 213).
selectbox_if_any(options, state) ==
    IF Len(options) > 0 THEN Some(selectbox(options, state)) ELSE None

Frequencies == <<"D", "W", "M", "Q", "Y">>
\* st.radio(Frequencies, index=2, key=...): default "M".
radio(state) ==
    IF IsSome(state) /\ Get(state) \in Range(Frequencies) THEN Get(state)
    ELSE Frequencies[3]

NoWidgets ==
    [dist_num_select |-> None, freq_cat_select |-> None,
     ts_dt_select |-> None, ts_freq_radio |-> None]

\* ---- Insight 2: frequency of a categorical column, lines 155-172 ----
max_categories_to_show == 25

AppendIfNew(seq, x) == IF x \in Range(seq) THEN seq ELSE Append(seq, x)

RECURSIVE Distinct(_)
\* The distinct elements of a sequence, in order of first appearance.
Distinct(seq) ==
    IF Len(seq) = 0 THEN <<>>
    ELSE AppendIfNew(Distinct(SubSeq(seq, 1, Len(seq) - 1)), seq[Len(seq)])

InsertAt(seq, x, k) == SubSeq(seq, 1, k) \o <<x>> \o SubSeq(seq, k + 1, Len(seq))

\* x goes after the entries of sorted whose count is at least its own.
InsertByCount(sorted, x) ==
    InsertAt(sorted, x,
             Cardinality({i \in 1..Len(sorted) : sorted[i].count >= x.count}))

RECURSIVE SortDesc(_)
\* Stable sort of [value, count] records by decreasing count.
SortDesc(seq) ==
    IF Len(seq) = 0 THEN <<>>
    ELSE InsertByCount(SortDesc(SubSeq(seq, 1, Len(seq) - 1)), seq[Len(seq)])

\* The count of every value of values among the cells present.
tally(present, values) ==
    [i \in 1..Len(values) |->
        [value |-> values[i],
         count |-> Cardinality({j \in 1..Len(present) : present[j] = values[i]})]]

count_present(present) == SortDesc(tally(present, Distinct(present)))

\* Series.value_counts(): the count of each distinct non-missing value, by
\* decreasing count.
value_counts(cells) == count_present(SelectSeq(cells, LAMBDA x : ~isnull(x)))

Take(seq, n) == SubSeq(seq, 1, Min2(n, Len(seq)))
TakeLast(seq, n) == [i \in 1..Min2(n, Len(seq)) |-> seq[Len(seq) + 1 - i]]

\* A mutation of line 161: nsmallest instead of nlargest.
nsmallest(counts, n) == TakeLast(SortDesc(counts), n)

\* Series.nlargest(n): the n entries of largest count (keep='first').
nlargest(counts, n) == Take(SortDesc(counts), n)

\* Line 159.
too_many_categories(counts) == Len(counts) > max_categories_to_show

\* Lines 159-172: the warning, if any, and the bars of the chart.
frequency_chart(counts) ==
    IF too_many_categories(counts)
    THEN [warning |-> Some([shown |-> max_categories_to_show, total |-> Len(counts)]),
          bars    |-> nlargest(counts, max_categories_to_show)]
    ELSE [warning |-> None, bars |-> counts]

insight2(cells) == frequency_chart(value_counts(cells))

\* ---- Insight 3: correlation, lines 185-209 ----
\* A mutation of line 186: "> 2" instead of ">= 2".
enough_for_correlation_gt2(numeric_cols) == Len(numeric_cols) > 2

\* Line 186.
enough_for_correlation(numeric_cols) == Len(numeric_cols) >= 2

\* The heatmap is represented by the columns its matrix covers.
insight3(numeric_cols) ==
    IF enough_for_correlation(numeric_cols)
    THEN [heatmap |-> Some(numeric_cols), info |-> None]
    ELSE IF Len(numeric_cols) = 1
    THEN [heatmap |-> None,
          info |-> Some("Only one numerical column found. Correlation analysis requires at least two numerical columns.")]
    ELSE [heatmap |-> None,
          info |-> Some("No numerical columns found for correlation analysis.")]

\* ---- Insight 4: time series, lines 213-259 ----
Year(n)  == n \div 10000
Month(n) == (n \div 100) % 100
Day(n)   == n % 100

DayOfEra(yoe, doy) == yoe * 365 + yoe \div 4 - yoe \div 100 + doy
DaysOfEra(era, yy, doy) == era * 146097 + DayOfEra(yy - era * 400, doy) - 719468
DaysOfShifted(yy, mp, d) == DaysOfEra(yy \div 400, yy, (153 * mp + 2) \div 5 + d - 1)
\* Days since 1970-01-01 of a civil date (the year starts in March).
DaysFromCivil(y, m, d) ==
    DaysOfShifted(IF m <= 2 THEN y - 1 ELSE y, IF m > 2 THEN m - 3 ELSE m + 9, d)

Ordinal(n) == DaysFromCivil(Year(n), Month(n), Day(n))

\* The index of the resampling bucket of a timestamp: day, week (Monday to
\* Sunday), month, quarter, year.
bucket(f, n) ==
    IF f \in {"D", "W"}
    THEN (IF f = "D" THEN Ordinal(n) ELSE (Ordinal(n) + 3) \div 7)
    ELSE IF f = "M" THEN Year(n) * 12 + (Month(n) - 1)
    ELSE IF f = "Q" THEN Year(n) * 4 + (Month(n) - 1) \div 3
    ELSE Year(n)

SetMin(S) == CHOOSE x \in S : \A y \in S : x <= y
SetMax(S) == CHOOSE x \in S : \A y \in S : x >= y

\* The row count of every bucket from lo to hi; idx maps a row to its bucket.
bucket_counts(idx, lo, hi) ==
    [first |-> lo,
     counts |-> [k \in 1..(hi - lo + 1) |->
                   Cardinality({i \in DOMAIN idx : idx[i] = lo + k - 1})]]

series_of(idx) ==
    IF DOMAIN idx = {} THEN [first |-> 0, counts |-> <<>>]
    ELSE bucket_counts(idx, SetMin({idx[i] : i \in DOMAIN idx}),
                            SetMax({idx[i] : i \in DOMAIN idx}))

\* df.set_index(c).resample(f).size(): the row count of every bucket from the
\* first to the last timestamp (rows with NaT are left out).
resample_size(t, c, f) ==
    series_of([i \in {j \in 1..t.nrows : t.data[c][j].kind = "ts"} |->
                 bucket(f, t.data[c][i].n)])

\* Lines 231-254: the line chart, or the warning when the series is empty.
time_series_chart(t2, c, resample_freq, series) ==
    [df |-> t2, ts_freq_radio |-> Some(resample_freq),
     chart |-> IF Len(series.counts) > 0
               THEN Some([column |-> c, freq |-> resample_freq,
                          first |-> series.first, counts |-> series.counts])
               ELSE None,
     warning |-> Len(series.counts) = 0,
     error |-> None]

\* Lines 222-230: the column is overwritten in the table, then the radio is read.
time_series_of(t2, c, resample_freq) ==
    time_series_chart(t2, c, resample_freq, resample_size(t2, c, resample_freq))

\* Lines 221-257 given the result of pd.to_datetime.
time_series(t, c, conv, radio_state) ==
    IF IsSome(conv.raised)
    THEN [df |-> t, ts_freq_radio |-> None, chart |-> None, warning |-> FALSE,
          error |-> Some(Get(conv.raised).text)]
    ELSE time_series_of([t EXCEPT !.dtype[c] = "datetime",
                                  !.data[c] = Get(conv.value)],
                        c, radio(radio_state))

\* Lines 221-257, for the selected column: the table after line 222, the radio's
\* value when it was rendered, and the chart, warning or error.
insight4(t, c, radio_state) == time_series(t, c, to_datetime(t, c), radio_state)

\* ---- the page script, lines 79-273 ----
\* What one run of the script renders.  The title (lines 79-83) is rendered by
\* every run, the footer (lines 270-273) by every run that reaches the end of the
\* script: an uncaught exception stops the run where it is raised.
Page(status, error, analysis) ==
    [status |-> status, error |-> error, analysis |-> analysis,
     footer |-> status # "exception"]

\* Lines 98-264 once the insights are computed: what is rendered, the widget
\* state and the table the run leaves behind.
render(t, cls, num, cat, dt, i2, i4) ==
    [df |-> i4.df,
     widgets |->
        [dist_num_select |-> num, freq_cat_select |-> cat,
         ts_dt_select |-> dt, ts_freq_radio |-> i4.ts_freq_radio],
     analysis |->
        [eda |-> display_basic_eda(t),
         numeric_cols |-> cls.numeric_cols,
         categorical_cols |-> cls.categorical_cols,
         datetime_cols |-> cls.datetime_cols,
         dist |-> IF IsSome(num)
                  THEN [chart |-> Some([column |-> Get(num), x |-> t.data[Get(num)]]),
                        info |-> FALSE]
                  ELSE [chart |-> None, info |-> TRUE],
         freq |-> IF IsSome(cat)
                  THEN [chart |-> Some([column |-> Get(cat), bars |-> i2.bars]),
                        warning |-> i2.warning, info |-> FALSE]
                  ELSE [chart |-> None, warning |-> None, info |-> TRUE],
         corr |-> insight3(cls.numeric_cols),
         ts |-> [chart |-> i4.chart, warning |-> i4.warning,
                 error |-> i4.error, info |-> ~IsSome(dt)]]]

\* Lines 120-259 for the selections made: Insight 2 and Insight 4 run only when
\* their selectbox was rendered.
insights(t, cls, num, cat, dt, radio_state) ==
    render(t, cls, num, cat, dt,
           IF IsSome(cat) THEN insight2(t.data[Get(cat)])
           ELSE [warning |-> None, bars |-> <<>>],
           IF IsSome(dt) THEN insight4(t, Get(dt), radio_state)
           ELSE [df |-> t, ts_freq_radio |-> None, chart |-> None,
                 warning |-> FALSE, error |-> None])

\* Lines 120-219: the three selectboxes over the classified columns.
select_columns(t, w, cls) ==
    insights(t, cls,
             selectbox_if_any(cls.numeric_cols, w.dist_num_select),
             selectbox_if_any(cls.categorical_cols, w.freq_cat_select),
             selectbox_if_any(cls.datetime_cols, w.ts_dt_select),
             w.ts_freq_radio)

\* Lines 98-264: the analyses of a loaded table t under the widget state w.
analyse(t, w) == select_columns(t, w, classify(t))

\* Lines 94-264 for a loaded table.  Line 222 writes into the object load_data
\* returned: when that object is the cached one, the cache holds the write.
script_analysed(loaded, a) ==
    [page |-> Page("analysis", None, Some(a.analysis)),
     widgets |-> a.widgets,
     df |-> Some(a.df),
     cache |-> IF loaded.aliased
               THEN Some([value |-> Some(a.df), error |-> None, uncaught |-> None])
               ELSE loaded.entry]

\* Lines 92-264: nothing but the error message when load_data returned None.
script_loaded(loaded, w) ==
    IF IsSome(loaded.uncaught)
    THEN [page |-> Page("exception", loaded.uncaught, None),
          widgets |-> NoWidgets, df |-> None, cache |-> loaded.entry]
    ELSE IF ~IsSome(loaded.value)
    THEN [page |-> Page("load_error", loaded.error, None),
          widgets |-> NoWidgets, df |-> None, cache |-> loaded.entry]
    ELSE script_analysed(loaded, analyse(Get(loaded.value), w))

\* One run of the script: the page, the widget state, the table object the run
\* worked on and the cache entry afterwards.
script(file, entry, w) ==
    IF ~IsSome(file)
    THEN [page |-> Page("awaiting", None, None), widgets |-> NoWidgets,
          df |-> None, cache |-> entry]
    ELSE script_loaded(load_data(Get(file), entry), w)

\* The outcome r of a script run becomes the state of the session.
Rendered(r, file, n) ==
    /\ uploaded_file' = file
    /\ page' = r.page
    /\ widgets' = r.widgets
    /\ df' = r.df
    /\ cache' = r.cache
    /\ runs' = n
    /\ UNCHANGED <<weatherVars, freqVars>>

\* The script runs on the given uploader content and widget state.
Run(file, w, n) == Rendered(script(file, cache, w), file, n)

NextRun == Min2(runs + 1, MaxRuns)

\* The user uploads a file.  Replacing a file in place is RemoveFile followed by
\* Upload: a widget value carried over is either not an option of the new table
\* (selectbox falls back to the first option) or can be selected again afterwards.
Upload ==
    /\ uploaded_file = None
    /\ \E f \in Files : Run(Some(f), NoWidgets, 1)

\* The user removes the file.  The cache entry of the removed file is dropped
\* from the model: load_data is deterministic, so uploading the same content
\* again finds or computes the same table.
RemoveFile ==
    /\ uploaded_file # None
    /\ uploaded_file' = None
    /\ cache' = None
    /\ df' = None
    /\ widgets' = NoWidgets
    /\ page' = Page("awaiting", None, None)
    /\ runs' = 0
    /\ UNCHANGED <<weatherVars, freqVars>>

\* Any interaction that changes no keyed widget reruns the script.
Rerun ==
    /\ uploaded_file # None
    /\ Run(uploaded_file, widgets, NextRun)

SelectNumeric ==
    /\ IsSome(widgets.dist_num_select)
    /\ \E c \in Range(Get(page.analysis).numeric_cols) :
          /\ c # Get(widgets.dist_num_select)
          /\ Run(uploaded_file, [widgets EXCEPT !.dist_num_select = Some(c)], NextRun)

SelectCategorical ==
    /\ IsSome(widgets.freq_cat_select)
    /\ \E c \in Range(Get(page.analysis).categorical_cols) :
          /\ c # Get(widgets.freq_cat_select)
          /\ Run(uploaded_file, [widgets EXCEPT !.freq_cat_select = Some(c)], NextRun)

SelectDatetime ==
    /\ IsSome(widgets.ts_dt_select)
    /\ \E c \in Range(Get(page.analysis).datetime_cols) :
          /\ c # Get(widgets.ts_dt_select)
          /\ Run(uploaded_file, [widgets EXCEPT !.ts_dt_select = Some(c)], NextRun)

SelectFrequency ==
    /\ IsSome(widgets.ts_freq_radio)
    /\ \E f \in Range(Frequencies) :
          /\ f # Get(widgets.ts_freq_radio)
          /\ Run(uploaded_file, [widgets EXCEPT !.ts_freq_radio = Some(f)], NextRun)

(***************************************************************************)
(* Insight 2 on a long column.  The tables above are too short to hold     *)
(* more than max_categories_to_show distinct values, so the selected       *)
(* categorical column is grown here one row at a time, Insight 2 running   *)
(* on it after every row.  Category(k) is the text of the k-th distinct    *)
(* value; a new row either introduces the next value or repeats the last.  *)
(***************************************************************************)
MaxDistinct == 27   \* most distinct values of the column
MaxRepeats  == 2    \* most rows repeating an earlier value

Category(k) == [kind |-> "str", n |-> k, s |-> "category"]

DistinctCount(cells) == Cardinality({x \in Range(cells) : ~isnull(x)})
RepeatCount(cells) ==
    Cardinality({i \in 1..Len(cells) : ~isnull(cells[i])}) - DistinctCount(cells)

\* Insight 2 runs on the column with one more row.
Charted(cells) ==
    /\ column' = cells
    /\ chart' = Some(insight2(cells))
    /\ UNCHANGED <<weatherVars, insightVars>>

\* The column starts with a missing cell.
AppendMissing ==
    /\ Len(column) = 0
    /\ Charted(<<NaN>>)

\* The next row holds a value not seen before.
AppendNewValue ==
    /\ DistinctCount(column) < MaxDistinct
    /\ Charted(Append(column, Category(DistinctCount(column) + 1)))

\* The next row repeats the value of the row before it.
AppendRepeat ==
    /\ Len(column) > 0
    /\ ~isnull(column[Len(column)])
    /\ RepeatCount(column) < MaxRepeats
    /\ Charted(Append(column, column[Len(column)]))

(***************************************************************************)
(*                 CLAIMS ABOUT THE WEATHER ENDPOINT                       *)
(***************************************************************************)

\* The last request, when there is one.
LastCity == Get(req).city
LastNet  == Get(req).net
Handled  == IsSome(req) /\ IsSome(resp)

\* A city was supplied: the parameter is present and not the empty string.
CitySupplied == LastCity # None /\ LastCity # Some("")

\* An upstream body carrying every field the handler reads.
WellFormed(body) ==
    /\ body.kind = "object"
    /\ IsSome(body.name)
    /\ IsSome(body.main) /\ IsSome(Get(body.main).temp)
    /\ IsSome(body.weather) /\ Len(Get(body.weather)) >= 1
    /\ IsSome(Get(body.weather)[1].description)

\* C1: for every upstream response whose status is not 200, the endpoint answers
\* 404 {error: "City not found"}, whatever the upstream body is.
C1_Non200Is404 ==
    (Handled /\ CitySupplied /\ LastNet.kind = "response" /\ LastNet.status # 200)
        => resp = Some(Response(404, ErrorBody("City not found")))

\* C2: a request whose city parameter is absent or empty is answered
\* 200 {error: "City parameter is required"} and makes no upstream call.
C2_MissingCity ==
    (Handled /\ ~CitySupplied)
        => /\ resp = Some(Response(200, ErrorBody("City parameter is required")))
           /\ upstream = None

\* C2 witness: an empty city parameter was handled after earlier requests had
\* already called the upstream.
C2_Witness ==
    /\ Handled /\ LastCity = Some("")
    /\ upstreamCalls > 0 /\ upstream = None
    /\ Get(resp).status = 200

\* The inputs on which a step of the lookup raises: the network call fails, the
\* body is not JSON, or a success body lacks a field the handler reads.
LookupRaises(net) ==
    \/ net.kind = "failure"
    \/ net.kind = "response" /\ net.body.kind = "notjson"
    \/ net.kind = "response" /\ net.status = 200 /\ ~WellFormed(net.body)

\* C3: with a city supplied, whenever a step of the lookup raises, the endpoint
\* answers 500 {error: "Server error", details: <text>}; no exception escapes
\* the handler on any request.
C3_ExceptionIs500 ==
    /\ Handled => Get(resp).unhandled = None
    /\ (Handled /\ CitySupplied /\ LookupRaises(LastNet))
        => /\ Get(resp).status = 500
           /\ Get(resp).body.error = Some("Server error")
           /\ IsSome(Get(resp).body.details)
           /\ Get(resp).body.city = None
           /\ Get(resp).body.temperature = None
           /\ Get(resp).body.description = None

\* C3 witness: the network call itself failed and the answer was the 500 body
\* carrying the exception text.
C3_Witness ==
    /\ Handled /\ CitySupplied /\ LastNet.kind = "failure"
    /\ Get(resp).status = 500
    /\ Get(resp).body.details = Some("Max retries exceeded")

\* out is s with its first character upper-cased and all others lower-cased.
IsCapitalized(out, s) ==
    /\ Len(out) = Len(s)
    /\ \A i \in 1..Len(s) :
          out[i] = IF i = 1 THEN ToUpper(s[1]) ELSE ToLower(s[i])

\* C4: an upstream 200 with a well-formed body is answered 200 with exactly
\* {city: name, temperature: main.temp, description: capitalize(weather[0].description)}.
C4_SuccessBody ==
    (Handled /\ CitySupplied /\ LastNet.kind = "response"
       /\ LastNet.status = 200 /\ WellFormed(LastNet.body))
        => LET body == LastNet.body IN
           /\ Get(resp).status = 200
           /\ Get(resp).unhandled = None
           /\ Get(resp).body.error = None
           /\ Get(resp).body.details = None
           /\ Get(resp).body.city = body.name
           /\ Get(resp).body.temperature = Get(body.main).temp
           /\ IsSome(Get(resp).body.description)
           /\ IsCapitalized(Get(Get(resp).body.description),
                            Get(Get(body.weather)[1].description))

\* C4 witness: London, 15.5, "clear sky" first of two weather entries, answered
\* {London, 15.5, "Clear sky"}.
C4_Witness ==
    /\ Handled /\ CitySupplied /\ LastNet.kind = "response"
    /\ LastNet.status = 200 /\ WellFormed(LastNet.body)
    /\ LastNet.body.name = Some("London")
    /\ Get(LastNet.body.main).temp = Some(155)
    /\ Len(Get(LastNet.body.weather)) = 2
    /\ Get(LastNet.body.weather)[1].description = Some(ClearSky)
    /\ Get(LastNet.body.weather)[2].description = Some(<<"m", "I", "s", "T">>)
    /\ Get(resp).body =
          [error |-> None, details |-> None, city |-> Some("London"),
           temperature |-> Some(155),
           description |-> Some(<<"C", "l", "e", "a", "r", " ", "s", "k", "y">>)]

(***************************************************************************)
(*                 CLAIMS ABOUT THE INSIGHT GENERATOR                      *)
(*                                                                         *)
(* The claims are stated against the uploaded file itself (the text of its *)
(* fields), not against the operators that model the script.               *)
(***************************************************************************)
TheFile     == Get(uploaded_file)
Analysed    == IsSome(uploaded_file) /\ page.status = "analysis"
TheAnalysis == Get(page.analysis)
FileColumns == Range(TheFile.header)
Fields(c)   == Range(TheFile.fields[c])

\* How the file's columns load: numeric when there are rows and every non-empty
\* field is a number, text otherwise.
FileNumeric(c) ==
    TheFile.nrows > 0 /\ Fields(c) \subseteq ({""} \cup DOMAIN NumberOf)
FileText(c) == ~FileNumeric(c)
\* The column holds a value that is not a date.
HasUnparseable(c) == \E x \in Fields(c) : x # "" /\ x \notin DOMAIN DateOf
\* The number of missing entries of the column.
FileMissing(c) ==
    Cardinality({i \in 1..TheFile.nrows : TheFile.fields[c][i] = ""})

\* C5: at every point of a session the page (classification and rendered outputs)
\* and the widget state are those of a first run on the freshly loaded file under
\* the same selections; every rerun therefore renders what the first run did,
\* although line 222 overwrites the selected column of the run's table.
C5_RerunsMatchFirstRun ==
    IsSome(uploaded_file)
        => /\ page = script(uploaded_file, None, widgets).page
           /\ widgets = script(uploaded_file, None, widgets).widgets

\* C5 witness: after a rerun, the run's table has the selected column overwritten
\* with datetimes while the cached table still holds the text read from the file.
C5_Witness ==
    /\ Analysed /\ runs >= 2
    /\ IsSome(widgets.ts_dt_select)
    /\ Get(df).dtype[Get(widgets.ts_dt_select)] = "datetime"
    /\ Get(Get(cache).value).dtype[Get(widgets.ts_dt_select)] = "object"
    /\ Len(TheAnalysis.datetime_cols) = 2
    /\ Get(widgets.ts_dt_select) \in Range(TheAnalysis.categorical_cols)
    /\ IsSome(TheAnalysis.ts.chart)

\* C6: a text column is in the datetime set only if every value of it parses as a
\* date; a text column with an unparseable value is not in the datetime set and
\* is in the categorical set.  (A table read from a file has no native datetime
\* column.)
C6_AllOrNothingDatetime ==
    Analysed =>
        \A c \in FileColumns :
            /\ c \in Range(TheAnalysis.datetime_cols)
                 => FileText(c) /\ ~HasUnparseable(c)
            /\ (FileText(c) /\ HasUnparseable(c))
                 => /\ c \notin Range(TheAnalysis.datetime_cols)
                    /\ c \in Range(TheAnalysis.categorical_cols)

\* C6 witness: column a holds a date and an unparseable text and is categorical
\* only, while column b, all dates, was inferred as datetime.
C6_Witness ==
    /\ Analysed /\ TheFile.header = <<"a", "b">> /\ TheFile.nrows = 2
    /\ TheFile.fields["a"] = <<"2024-01-05", "abc">>
    /\ TheFile.fields["b"] = <<"2024-01-05", "2024-01-05">>
    /\ TheAnalysis.datetime_cols = <<"b">>
    /\ TheAnalysis.categorical_cols = <<"a", "b">>

\* C8: when the file cannot be loaded, the run renders the error message and
\* nothing of the analyses, holds no table, and still reaches the end of the
\* script (the footer is rendered).
C8_LoadFailure ==
    (IsSome(uploaded_file) /\ TheFile.kind # "csv")
        => /\ page.status = "load_error"
           /\ IsSome(page.error)
           /\ page.analysis = None
           /\ page.footer
           /\ df = None
           /\ widgets = NoWidgets

\* C8 witness: an empty file, after a rerun, shows the error of the load.
C8_Witness ==
    /\ IsSome(uploaded_file) /\ TheFile.kind = "empty" /\ runs >= 2
    /\ page.status = "load_error"
    /\ page.error = Some("No columns to parse from file")

NumericCount == Cardinality({c \in FileColumns : FileNumeric(c)})

\* C9: the correlation heatmap is rendered if and only if the table has at least
\* two numeric columns; with fewer there is an informational message and no
\* heatmap.
C9_Correlation ==
    Analysed =>
        /\ IsSome(TheAnalysis.corr.heatmap) <=> NumericCount >= 2
        /\ NumericCount < 2
             => TheAnalysis.corr.heatmap = None /\ IsSome(TheAnalysis.corr.info)
        /\ NumericCount >= 2 => TheAnalysis.corr.info = None

\* C9 witness: a table of two columns of which one is numeric: message, no heatmap.
C9_Witness ==
    /\ Analysed /\ Len(TheFile.header) = 2 /\ NumericCount = 1
    /\ TheAnalysis.corr.heatmap = None
    /\ IsSome(TheAnalysis.corr.info)

MissingColumns == {c \in FileColumns : FileMissing(c) > 0}

\* C10: with no missing value the analysis reports "no missing values" and
\* renders neither table nor heatmap; table and heatmap are rendered exactly when
\* some column has a missing count above 0, and the table lists those columns
\* only, each with its count.
C10_MissingValues ==
    Analysed =>
        LET m == TheAnalysis.eda.missing IN
        /\ m.no_missing <=> MissingColumns = {}
        /\ IsSome(m.missing_table) <=> MissingColumns # {}
        /\ IsSome(m.missing_heatmap) <=> MissingColumns # {}
        /\ MissingColumns # {}
             => /\ Range(Get(m.missing_table)) = MissingColumns
                /\ Len(Get(m.missing_table)) = Cardinality(MissingColumns)
                /\ DOMAIN m.missing_counts = MissingColumns
                /\ \A c \in MissingColumns : m.missing_counts[c] = FileMissing(c)

\* C10 witness: a table with rows and no missing value: the success message, no
\* table, no heatmap.
C10_Witness ==
    /\ Analysed /\ TheFile.nrows = 2 /\ Len(TheFile.header) = 2
    /\ MissingColumns = {}
    /\ TheAnalysis.eda.missing.no_missing
    /\ TheAnalysis.eda.missing.missing_table = None
    /\ TheAnalysis.eda.missing.missing_heatmap = None

(***************************************************************************)
(*             THE CLAIM ABOUT THE CATEGORICAL FREQUENCY                   *)
(***************************************************************************)
ColumnValues == {x \in Range(column) : ~isnull(x)}
Occurrences(v) == Cardinality({i \in 1..Len(column) : column[i] = v})
Bars == Get(chart).bars
Shown == {Bars[i].value : i \in 1..Len(Bars)}

\* C7: with more than 25 distinct values the chart shows exactly 25 of them, none
\* with a smaller count than a value left out, and the warning reports the total
\* and the 25 shown; with 25 or fewer every value is shown and there is no
\* warning.  Every bar carries the count of its value.
C7_TopCategories ==
    IsSome(chart) =>
        /\ \A i \in 1..Len(Bars) : Bars[i].count = Occurrences(Bars[i].value)
        /\ Cardinality(Shown) = Len(Bars)
        /\ Shown \subseteq ColumnValues
        /\ IF Cardinality(ColumnValues) > 25
           THEN /\ Len(Bars) = 25
                /\ \A v \in ColumnValues \ Shown :
                      \A b \in Shown : Occurrences(b) >= Occurrences(v)
                /\ Get(chart).warning =
                      Some([shown |-> 25, total |-> Cardinality(ColumnValues)])
           ELSE /\ Shown = ColumnValues
                /\ Get(chart).warning = None

\* C7 witness: 27 distinct values of which the last two occur twice: the warning
\* says 25 of 27, both repeated values are shown and two values of count 1 are
\* left out.
C7_Witness ==
    /\ IsSome(chart)
    /\ Cardinality(ColumnValues) = 27
    /\ Occurrences(Category(26)) = 2
    /\ Occurrences(Category(27)) = 2
    /\ Category(26) \in Shown
    /\ Get(chart).warning = Some([shown |-> 25, total |-> 27])
    /\ Category(27) \in Shown
    /\ Cardinality(ColumnValues \ Shown) = 2

(***************************************************************************)
(*                          SPECIFICATIONS                                 *)
(*                                                                         *)
(* The two applications share no state, so each is checked on its own:     *)
(* every specification starts from the same initial state (no request      *)
(* handled, no file uploaded and the "awaiting" page rendered) and moves   *)
(* one application only.                                                   *)
(***************************************************************************)
Init ==
    /\ req = None
    /\ resp = None
    /\ upstream = None
    /\ upstreamCalls = 0
    /\ uploaded_file = None
    /\ cache = None
    /\ df = None
    /\ widgets = NoWidgets
    /\ page = Page("awaiting", None, None)
    /\ runs = 0
    /\ column = <<>>
    /\ chart = None

\* The weather endpoint.
WeatherNext == GetWeather
WeatherSpec == Init /\ [][WeatherNext]_vars

\* The insight generator.
InsightNext ==
    \/ Upload
    \/ RemoveFile
    \/ Rerun
    \/ SelectNumeric
    \/ SelectCategorical
    \/ SelectDatetime
    \/ SelectFrequency
InsightSpec == Init /\ [][InsightNext]_vars

\* Insight 2 on a long column.
FreqNext ==
    \/ AppendMissing
    \/ AppendNewValue
    \/ AppendRepeat
FreqSpec == Init /\ [][FreqNext]_vars
====
